---- MODULE Spec2Model ----
(***************************************************************************)
(* A model of the RCA similarity index (app/rca/index.py), the query       *)
(* engine built on it (app/rca/search.py) and the callers that mutate the  *)
(* store (app/backend/main.py, app/ingest/build_index.py).                 *)
(*                                                                         *)
(* Numbers: float32 vectors are modelled in fixed point.  A normalised     *)
(* component is an integer number of 1/Scale units, a similarity an        *)
(* integer number of 1/Scale^2 units.  Positions are 0-based as in Python. *)
(***************************************************************************)
EXTENDS Integers, Sequences, FiniteSets, TLC

\* ------------------------------------------------------------------ bounds
MaxMeta == 2
MaxBatch == 2
Scale == 10
MaxTopK == 3
MaxKeywords == 3
MaxCands == 6

\* --------------------------------------------------------------- constants
\* self.dim = None
NoneDim == -1
\* component=None
NoneStr == "<None>"

\* ------------------------------------------------------------- input pools
\* Rows as read_csv_rows / the /ingest data frame hand them over.
Row(c, mo, fd, rc) == [component |-> c, model |-> mo, fault_description |-> fd, root_cause |-> rc]

RowPool ==
  { Row("pump", "", "loud vibration", "bearing wear"),
    Row("motor", "", "burnt smell", "winding short") }

\* A third row for the stores searched: the first row's description, its
\* component spelled with a capital, and a model.
WideRowPool == RowPool \cup { Row("Pump", "X1", "loud vibration", "misalignment") }

\* Raw embedding vectors (before normalisation), of two different dimensions.
EmbPool == { <<1, 0>>, <<3, 4>>, <<2>> }

QueryPool == { <<1, 0>>, <<4, 3>> }

ComponentFilters == { NoneStr, "", "PUMP", "valve" }

ModelFilters == { NoneStr, "X1" }

SeqsUpTo(S, n) == UNION { [1..k -> S] : k \in 0..n }

\* A numpy matrix: every row has the same length.
Matrices(n) == { e \in SeqsUpTo(EmbPool, n) : \A i, j \in DOMAIN e : Len(e[i]) = Len(e[j]) }

RowLists == SeqsUpTo(RowPool, MaxBatch)

\* -------------------------------------------------------------- arithmetic
Min(a, b) == IF a <= b THEN a ELSE b

Dot(a, b) ==
  LET f[i \in 0..Len(a)] == IF i = 0 THEN 0 ELSE f[i - 1] + a[i] * b[i]
  IN  f[Len(a)]

AbsSum(v) ==
  LET f[i \in 0..Len(v)] == IF i = 0 THEN 0 ELSE f[i - 1] + (IF v[i] < 0 THEN -v[i] ELSE v[i])
  IN  f[Len(v)]

\* floor(sqrt(n)), searched below hi + 1
ISqrt(n, hi) == CHOOSE r \in 0..hi : r * r <= n /\ (r + 1) * (r + 1) > n

\* v / (norm(v) + 1e-10), in units of 1/Scale; the zero vector stays zero.
UnitVector(v) ==
  LET norm == ISqrt(Dot(v, v) * Scale * Scale, AbsSum(v) * Scale)
  IN  [i \in DOMAIN v |-> IF norm = 0 THEN 0 ELSE (v[i] * Scale * Scale) \div norm]

\* _normalise on the vectors of the pools, computed once
UnitVectors == [v \in EmbPool \cup QueryPool |-> UnitVector(v)]

Normalise(v) == UnitVectors[v]

NormaliseRows(embeddings) == [i \in DOMAIN embeddings |-> Normalise(embeddings[i])]

\* vecs.shape[1]; embed_texts returns a (0, 0) matrix for no texts.
MatDim(embeddings) == IF embeddings = <<>> THEN 0 ELSE Len(embeddings[1])

\* str.lower() on the strings of the model
Lower(s) ==
  CASE s = "Pump"  -> "pump"
    [] s = "PUMP"  -> "pump"
    [] s = "Motor" -> "motor"
    [] OTHER       -> s

\* Python truthiness of an Optional[str]
Truthy(s) == s # NoneStr /\ s # ""


\* ------------------------------------------------------------------- state
VARIABLES
  meta,          \* RCAIndex.meta: the list of records, each with its embedding
  dim,           \* RCAIndex.dim
  faiss_index,   \* RCAIndex.faiss_index
  meta_file,     \* META_PATH on disk
  faiss_file,    \* FAISS_INDEX_PATH on disk
  faiss,         \* whether "import faiss" succeeded in this installation
  last,          \* the last store call and how it ended
  result,        \* what the last search / diagnose call returned
  lock,          \* RCAIndex.lock: the thread that holds it, or Free
  pc,            \* where each thread of the backend process is
  call,          \* the arguments and loop index of each thread's call
  buf,           \* what each thread's open file object has buffered
  diag,          \* st.session_state.diag of the frontend
  nar,           \* st.session_state.narrow of the frontend
  prop,          \* the propose_question call behind the proposal at hand: its
                 \* arguments and what it returned
  ans            \* an apply_answer call: its arguments and what it returned

storeVars == <<meta, dim, faiss_index>>
diskVars == <<meta_file, faiss_file>>
envVars == <<faiss>>
threadVars == <<lock, pc, call, buf>>
frontVars == <<diag, nar, prop, ans>>

\* ------------------------------------------------------------- the records
\* r2 = dict(r); r2["embedding"] = vecs[i].tolist()
Entry(r, vec) ==
  [component |-> r.component, model |-> r.model, fault_description |-> r.fault_description,
   root_cause |-> r.root_cause, embedding |-> vec]

NullEntry ==
  [component |-> "", model |-> "", fault_description |-> "", root_cause |-> "", embedding |-> <<>>]

\* self.faiss_index = None
NoIndex == [present |-> FALSE, d |-> NoneDim, ntotal |-> 0]

\* faiss.IndexFlatIP(d)
IndexFlatIP(d) == [present |-> TRUE, d |-> d, ntotal |-> 0]

\* A file at FAISS_INDEX_PATH that faiss.read_index cannot read
UnreadableIndex == [present |-> TRUE, d |-> NoneDim, ntotal |-> 0]

Store(m, d, fi) == [meta |-> m, dim |-> d, faiss_index |-> fi]

\* RCAIndex.__init__
NewStore == Store(<<>>, NoneDim, NoIndex)

\* ---------------------------------------------------------------- the disk
\* The metadata file is a sequence of tokens: one per list element, then the
\* token that closes the JSON list.  json.loads accepts exactly one complete
\* list with nothing after it.
Item(e) == [end |-> FALSE, e |-> e]
EndTok == [end |-> TRUE, e |-> NullEntry]

NoFile == [exists |-> FALSE, tokens |-> <<>>]

\* json.dump(self.meta, f, ...)
JsonDump(m) == [i \in 1..(Len(m) + 1) |-> IF i <= Len(m) THEN Item(m[i]) ELSE EndTok]

\* json.loads(text)
JsonLoads(tokens) ==
  LET n == Len(tokens)
      good == n >= 1 /\ tokens[n].end /\ \A i \in 1..(n - 1) : ~tokens[i].end
  IN  [ok |-> good,
       meta |-> IF good THEN [i \in 1..(n - 1) |-> tokens[i].e] ELSE <<>>]

Disk(mf, ff) == [meta_file |-> mf, faiss_file |-> ff]

\* RCAIndex.save, if it left the last record out of the file
Save_DropsLast(S, D) ==
  Disk([exists |-> TRUE, tokens |-> JsonDump(SubSeq(S.meta, 1, Len(S.meta) - 1))],
       IF S.faiss_index.present /\ faiss THEN S.faiss_index ELSE D.faiss_file)

\* RCAIndex.save, run to completion
Save(S, D) ==
  Disk([exists |-> TRUE, tokens |-> JsonDump(S.meta)],
       IF S.faiss_index.present /\ faiss THEN S.faiss_index ELSE D.faiss_file)

\* RCAIndex.load on the store S: [ret, err, store]
Load(S, D) ==
  IF ~D.meta_file.exists
    THEN [ret |-> FALSE, err |-> "none", store |-> S]
    ELSE LET parsed == JsonLoads(D.meta_file.tokens) IN
         IF ~parsed.ok
           THEN [ret |-> FALSE, err |-> "JSONDecodeError", store |-> S]
           ELSE IF D.faiss_file.present /\ faiss
                  THEN IF D.faiss_file = UnreadableIndex
                         THEN \* read_index raises; self.meta is already replaced
                              [ret |-> FALSE, err |-> "RuntimeError",
                               store |-> Store(parsed.meta, S.dim, S.faiss_index)]
                         ELSE [ret |-> TRUE, err |-> "none",
                               store |-> Store(parsed.meta, D.faiss_file.d, D.faiss_file)]
                  ELSE [ret |-> TRUE, err |-> "none",
                        store |-> Store(parsed.meta,
                                        IF parsed.meta = <<>> THEN NoneDim
                                        ELSE Len(parsed.meta[1].embedding),
                                        NoIndex)]

\* ------------------------------------------------------------ build and add
\* for i, r in enumerate(rows): ... self.meta.append(r2)
\* vecs[i] raises IndexError at the first row that has no vector.
AppendRows(m, vecs, rows) ==
  m \o [i \in 1..Min(Len(rows), Len(vecs)) |-> Entry(rows[i], vecs[i])]

\* RCAIndex.build: [store, disk, err]
BuildCall(S, D, embeddings, rows) ==
  LET vecs == NormaliseRows(embeddings)
      d    == MatDim(embeddings)
      fi   == IF faiss THEN [IndexFlatIP(d) EXCEPT !.ntotal = Len(vecs)] ELSE S.faiss_index
      S2   == Store(AppendRows(<<>>, vecs, rows), d, fi)
  IN  IF Len(rows) > Len(embeddings)
        THEN [store |-> S2, disk |-> D, err |-> "IndexError"]
        ELSE [store |-> S2, disk |-> Save(S2, D), err |-> "none"]

\* RCAIndex.add: [store, disk, err]
AddCall(S, D, embeddings, rows) ==
  LET vecs == NormaliseRows(embeddings)
      d1   == IF S.dim = NoneDim THEN MatDim(embeddings) ELSE S.dim
      fi1  == IF faiss /\ ~S.faiss_index.present THEN IndexFlatIP(d1) ELSE S.faiss_index
  IN  IF faiss /\ MatDim(embeddings) # fi1.d
        THEN \* faiss_index.add asserts d == self.d
             [store |-> Store(S.meta, d1, fi1), disk |-> D, err |-> "AssertionError"]
        ELSE LET fi2 == IF faiss THEN [fi1 EXCEPT !.ntotal = @ + Len(vecs)] ELSE fi1
                 S2  == Store(AppendRows(S.meta, vecs, rows), d1, fi2)
             IN  IF Len(rows) > Len(embeddings)
                   THEN [store |-> S2, disk |-> D, err |-> "IndexError"]
                   ELSE [store |-> S2, disk |-> Save(S2, D), err |-> "none"]

\* ------------------------------------------------------------------ search
\* ids = list(range(len(self.meta))), narrowed by the component filter
MatchingIds(m, component) ==
  LET f[i \in 0..Len(m)] ==
        IF i = 0 THEN <<>>
        ELSE IF ~Truthy(component) \/ Lower(m[i].component) = Lower(component)
               THEN Append(f[i - 1], i - 1)
               ELSE f[i - 1]
  IN  f[Len(m)]

\* np.argsort(-sims) uses the default sort kind, which is not stable: equal
\* keys come out in an order that the numpy build decides.  Two builds stand
\* for them: one leaves equal keys in ascending index order, one reverses them.
TieOrders == { "ascending", "descending" }

\* Whether key j sorts before key i in np.argsort(-sims)
Before(ties, sims, j, i) ==
  \/ sims[j] > sims[i]
  \/ sims[j] = sims[i] /\ (IF ties = "ascending" THEN j < i ELSE j > i)

\* np.argsort(-sims)
ArgSort(ties, sims) ==
  LET rank(i) == 1 + Cardinality({ j \in DOMAIN sims : Before(ties, sims, j, i) })
  IN  [p \in DOMAIN sims |-> CHOOSE i \in DOMAIN sims : rank(i) = p]

NoHits(e) == [err |-> e, hits |-> <<>>]

\* The body of RCAIndex.search from line 92 on, given the ids that lines 87-89
\* computed and the list m that line 92 reads: [err, hits], a hit being
\* [pos, similarity]
SearchVectors(ties, ids, m, query_vec, top_k, component) ==
  LET q   == Normalise(query_vec)
  IN  IF Truthy(component) /\ ids = <<>> THEN NoHits("none")
      ELSE IF \E i \in DOMAIN ids : ids[i] >= Len(m) THEN NoHits("IndexError")
      ELSE IF ids = <<>>
        THEN \* vecs has shape (0,): vecs @ q.T needs len(q) = 0
             NoHits(IF Len(q) = 0 THEN "IndexError" ELSE "ValueError")
      ELSE IF \E i, j \in DOMAIN ids :
                Len(m[ids[i] + 1].embedding) # Len(m[ids[j] + 1].embedding)
        THEN NoHits("ValueError")   \* np.array of ragged rows
      ELSE IF Len(m[ids[1] + 1].embedding) # Len(q)
        THEN NoHits("ValueError")   \* matmul dimension mismatch
      ELSE LET sims  == [i \in DOMAIN ids |-> Dot(m[ids[i] + 1].embedding, q)]
               order == SubSeq(ArgSort(ties, sims), 1, Min(top_k, Len(ids)))
           IN  [err |-> "none",
                hits |-> [o \in DOMAIN order |->
                            [pos |-> ids[order[o]], similarity |-> sims[order[o]]]]]

\* RCAIndex.search with the lock held throughout
SearchCall(ties, m, query_vec, top_k, component) ==
  SearchVectors(ties, MatchingIds(m, component), m, query_vec, top_k, component)

\* The parameters RCAIndex.search declares, and the keyword arguments
\* QueryEngine.diagnose passes to it.
SearchParams == { "query_vec", "top_k", "component" }
DiagnoseKwargs == { "top_k", "component", "model" }

\* QueryEngine.diagnose, given the query's embedding: [err, out]
DiagnoseCall(ties, m, qv, top_k, component, model) ==
  IF ~(DiagnoseKwargs \subseteq SearchParams)
    THEN [err |-> "TypeError", out |-> <<>>]
    ELSE LET r == SearchCall(ties, m, qv, top_k, component) IN
         [err |-> r.err,
          out |-> [i \in DOMAIN r.hits |->
                     LET row == m[r.hits[i].pos + 1] IN
                     [component |-> row.component,
                      model |-> IF row.model = "" THEN NoneStr ELSE row.model,
                      matched_fault_description |-> row.fault_description,
                      root_cause |-> row.root_cause,
                      similarity |-> r.hits[i].similarity]]]

\* ----------------------------------------------------------------- callers
\* OpenAIEmbedder.embed_texts: one vector per text, a function of the text
EmbedText(text) == IF text = "loud vibration" THEN <<1, 0>> ELSE <<3, 4>>

EmbedTexts(rows) == [i \in DOMAIN rows |-> EmbedText(rows[i].fault_description)]

\* The embeddings argument of a build/add call for rows: what a well-behaved
\* provider returns, and what one returns that is a vector short, a vector
\* long, or of another embedding model's dimension.
EmbeddingArgs(rows) ==
  { EmbedTexts(rows),
    SubSeq(EmbedTexts(rows), 1, Len(rows) - 1),
    Append(EmbedTexts(rows), <<1, 0>>),
    [i \in DOMAIN rows |-> <<2>>] }

\* normalise_component
NormaliseComponent(value) ==
  LET s == Lower(value) IN
  CASE s = "pumps"  -> "pump"
    [] s = "motors" -> "motor"
    [] s = "compressors" -> "compressor"
    [] OTHER -> s

\* is_reasonable_component, on the normalised labels of the model
IsReasonableComponent(s) == s # ""

Descriptions(m) == { m[i].fault_description : i \in DOMAIN m }

\* rows that POST /ingest keeps: normalised, validated, REQUIRED_COLS only
IngestRows(batch) ==
  LET df == [i \in DOMAIN batch |->
               [batch[i] EXCEPT !.component = NormaliseComponent(@), !.model = ""]]
      f[i \in 0..Len(df)] ==
        IF i = 0 THEN <<>>
        ELSE IF IsReasonableComponent(df[i].component) THEN Append(f[i - 1], df[i])
             ELSE f[i - 1]
  IN  f[Len(df)]

\* new_rows = [r for r in rows if r["fault_description"] not in existing]
NewRows(rows, m) ==
  LET f[i \in 0..Len(rows)] ==
        IF i = 0 THEN <<>>
        ELSE IF rows[i].fault_description \notin Descriptions(m)
               THEN Append(f[i - 1], rows[i])
               ELSE f[i - 1]
  IN  f[Len(rows)]

\* POST /ingest on the live index: [store, disk, err, added]
IngestCall(S, D, batch) ==
  LET rows == IngestRows(batch)
      new  == NewRows(rows, S.meta)
  IN  IF rows = <<>> \/ new = <<>>
        THEN [store |-> S, disk |-> D, err |-> "none", added |-> 0]
        ELSE LET r == AddCall(S, D, EmbedTexts(new), new)
             IN  [store |-> r.store, disk |-> r.disk, err |-> r.err, added |-> Len(new)]

\* build_index.main in a process of its own: [store, disk, err]
MainCall(D, rebuild, csv) ==
  LET ld == Load(NewStore, D) IN
  IF ld.err # "none" THEN [store |-> NewStore, disk |-> D, err |-> ld.err]
  ELSE IF rebuild \/ ~ld.ret THEN BuildCall(ld.store, D, EmbedTexts(csv), csv)
  ELSE LET new == NewRows(csv, ld.store.meta) IN
       IF new # <<>> THEN AddCall(ld.store, D, EmbedTexts(new), new)
       ELSE [store |-> ld.store, disk |-> D, err |-> "none"]

\* app.backend.main at import: index.load(), or a build from the seed CSV
StartupCall(D, csv) ==
  LET ld == Load(NewStore, D) IN
  IF ld.err # "none" THEN [store |-> NewStore, disk |-> D, err |-> ld.err]
  ELSE IF ~ld.ret THEN BuildCall(ld.store, D, EmbedTexts(csv), csv)
  ELSE [store |-> ld.store, disk |-> D, err |-> "none"]

\* --------------------------------------------------------------- narrowing
\* Texts are sequences of characters, so that strip, lower and "in" are
\* computed.  Similarities of candidates are in hundredths.
LowerChar(ch) ==
  CASE ch = "H" -> "h"
    [] ch = "O" -> "o"
    [] ch = "T" -> "t"
    [] OTHER    -> ch

\* str.lower()
LowerText(t) == [i \in DOMAIN t |-> LowerChar(t[i])]

\* str.strip()
Strip(t) ==
  LET solid == { i \in DOMAIN t : t[i] # " " }
  IN  IF solid = {} THEN <<>>
      ELSE SubSeq(t, CHOOSE i \in solid : \A j \in solid : i <= j,
                     CHOOSE i \in solid : \A j \in solid : i >= j)

\* needle in hay
Contains(hay, needle) ==
  \E i \in 0..(Len(hay) - Len(needle)) : SubSeq(hay, i + 1, i + Len(needle)) = needle

\* (k or "").strip().lower()
Fold(t) == LowerText(Strip(t))

\* BOOST, CAP of apply_answer, in hundredths
BOOST == 7
CAP == 15
\* for _ in range(3)
Attempts == 3
\* keywords[:6]
KeywordLimit == 6

\* { (k or "").strip().lower() for k in (banned or []) if str(k).strip() }
BannedSet(banned) == { Fold(k) : k \in { b \in banned : Strip(b) # <<>> } }

\* _overlaps_banned
OverlapsBanned(kws, banned) == \E i \in DOMAIN kws : Fold(kws[i]) \in banned

\* _similar_question, if it compared for equality only
SimilarQuestion_ExactOnly(q, banned_qs) ==
  LET qn == Fold(q) IN
  IF qn = <<>> THEN FALSE
  ELSE \E b \in banned_qs : qn = b

\* _similar_question
SimilarQuestion(q, banned_qs) ==
  LET qn == Fold(q) IN
  IF qn = <<>> THEN FALSE
  ELSE \E b \in banned_qs : qn = b \/ Contains(b, qn) \/ Contains(qn, b)

\* [x for x in xs if str(x).strip()], stripped and lowercased
CleanKeywords(kws) ==
  LET f[i \in 0..Len(kws)] ==
        IF i = 0 THEN <<>>
        ELSE IF Strip(kws[i]) # <<>> THEN Append(f[i - 1], Fold(kws[i])) ELSE f[i - 1]
  IN  f[Len(kws)]

\* What the question provider answers to one call: text that json.loads
\* rejects, valid JSON that is not an object, or an object with a question
\* (null and "" alike are the empty text) and keywords.
Garbage == [kind |-> "garbage", question |-> <<>>, keywords |-> <<>>]
NonObject == [kind |-> "nonobject", question |-> <<>>, keywords |-> <<>>]
Object(q, kws) == [kind |-> "object", question |-> q, keywords |-> kws]

\* {"question": None, "keywords": [], "rationale": "no_non_overlapping_question"}
NoQuestion(calls) ==
  [err |-> "none", calls |-> calls, none |-> TRUE, question |-> <<>>, keywords |-> <<>>]

\* propose_question, responses[i] being the provider's answer to call i:
\* [err, calls, none, question, keywords]
ProposeQuestion(banned_keywords, banned_questions, responses) ==
  LET banned_kw_set == BannedSet(banned_keywords)
      banned_q_set  == BannedSet(banned_questions)
      try[i \in 1..(Attempts + 1)] ==
        IF i > Attempts THEN NoQuestion(Attempts)
        ELSE IF responses[i].kind = "nonobject"
          THEN \* data.get on a list, a number or a string
               [NoQuestion(i) EXCEPT !.err = "AttributeError", !.none = FALSE]
        ELSE LET data == IF responses[i].kind = "garbage" THEN Object(<<>>, <<>>)
                         ELSE responses[i]
             IN  \* question and keywords are computed once per attempt
                 CHOOSE ret \in
                   { IF /\ question # <<>>
                        /\ ~SimilarQuestion(question, banned_q_set)
                        /\ ~OverlapsBanned(keywords, banned_kw_set)
                       THEN [err |-> "none", calls |-> i, none |-> FALSE,
                             question |-> question,
                             keywords |-> SubSeq(keywords, 1,
                                                 Min(KeywordLimit, Len(keywords)))]
                       ELSE try[i + 1]
                     : question \in { Strip(data.question) },
                       keywords \in { CleanKeywords(data.keywords) } } : TRUE
  IN  try[1]

\* A candidate as /diagnose returns it
Candidate(fd, rc, ca, sim) ==
  [matched_fault_description |-> fd, root_cause |-> rc, corrective_action |-> ca,
   similarity |-> sim]

\* " ".join([fault, cause, action]).lower()
MergedText(c) ==
  LowerText(c.matched_fault_description \o <<" ">> \o c.root_cause \o <<" ">>
              \o c.corrective_action)

\* sum(1 for k in keywords if k and k.lower() in text)
Hits(keywords, c) ==
  Cardinality({ i \in DOMAIN keywords :
                  keywords[i] # <<>> /\ Contains(MergedText(c), LowerText(keywords[i])) })

\* delta of apply_answer, if the cap were not applied
Delta_Uncapped(answer_yes, keywords, c) ==
  LET delta == BOOST * Hits(keywords, c)
  IN  IF answer_yes THEN delta ELSE -delta

\* delta of apply_answer, if the cap applied to a Yes answer only
Delta_CapsYesOnly(answer_yes, keywords, c) ==
  IF answer_yes THEN Min(CAP, BOOST * Hits(keywords, c))
  ELSE -(BOOST * Hits(keywords, c))

\* delta of apply_answer for one candidate
Delta(answer_yes, keywords, c) ==
  LET delta == Min(CAP, BOOST * Hits(keywords, c))
  IN  IF answer_yes THEN delta ELSE -delta

\* sorted(...), if it were an ascending sort followed by a reversal
SortedOrder_TiesReversed(cands) ==
  LET rank(i) == 1 + Cardinality({ j \in DOMAIN cands :
                       \/ cands[j].similarity > cands[i].similarity
                       \/ cands[j].similarity = cands[i].similarity /\ j > i })
  IN  [p \in DOMAIN cands |-> CHOOSE i \in DOMAIN cands : rank(i) = p]

\* sorted(candidates, key=similarity, reverse=True): stable, equal keys keep
\* their order.  The result as the sequence of input positions.
SortedOrder(cands) ==
  LET rank(i) == 1 + Cardinality({ j \in DOMAIN cands :
                       \/ cands[j].similarity > cands[i].similarity
                       \/ cands[j].similarity = cands[i].similarity /\ j < i })
  IN  [p \in DOMAIN cands |-> CHOOSE i \in DOMAIN cands : rank(i) = p]

\* apply_answer
ApplyAnswer(answer_yes, keywords, candidates) ==
  LET scored == [i \in DOMAIN candidates |->
                   [candidates[i] EXCEPT !.similarity = @ + Delta(answer_yes, keywords, candidates[i])]]
      order  == SortedOrder(scored)
  IN  [p \in DOMAIN scored |-> scored[order[p]]]

\* =========================================================================
\* Spec: the store driven call by call (each call runs to completion).
\* =========================================================================
vars == <<meta, dim, faiss_index, meta_file, faiss_file, faiss, last, result, lock, pc, call, buf,
          diag, nar, prop, ans>>

Mutators == { "m1", "m2" }
Searchers == { "s1" }
Threads == Mutators \cup Searchers
Free == "free"

NoCall == [op |-> "none", rows |-> <<>>, embeddings |-> <<>>, i |-> 0,
           query_vec |-> <<>>, top_k |-> 0, component |-> NoneStr, ids |-> <<>>]

\* No request is being served.
ThreadsIdle ==
  /\ lock = Free
  /\ pc = [t \in Threads |-> "idle"]
  /\ call = [t \in Threads |-> NoCall]
  /\ buf = [t \in Threads |-> <<>>]

TheStore == Store(meta, dim, faiss_index)
TheDisk == Disk(meta_file, faiss_file)

NoResult == [op |-> "none", query_vec |-> <<>>, top_k |-> 0, component |-> NoneStr,
             model |-> NoneStr, err |-> "none", hits |-> <<>>, out |-> <<>>]

\* What a call left behind: r is [store, disk, err].
Lands(op, r) ==
  /\ Len(r.store.meta) <= MaxMeta
  /\ r.store.faiss_index.ntotal <= MaxMeta + 1
  /\ meta' = r.store.meta
  /\ dim' = r.store.dim
  /\ faiss_index' = r.store.faiss_index
  /\ meta_file' = r.disk.meta_file
  /\ faiss_file' = r.disk.faiss_file
  /\ last' = [op |-> op, err |-> r.err]

EnvInit == faiss \in BOOLEAN

\* st.session_state.narrow = None
NoneNarrow ==
  [candidates |-> <<>>, step |-> 0, question |-> <<>>, keywords |-> <<>>,
   base_query |-> NoneStr, done |-> FALSE, asked |-> <<>>]

\* st.session_state.diag of a new browser session
NoDiag == [has_results |-> FALSE, query |-> "", filtered |-> <<>>]

\* No propose_question / apply_answer call has been made.
NoProposal ==
  [called |-> FALSE, banned_keywords |-> {}, banned_questions |-> {}, responses |-> <<>>,
   ret |-> NoQuestion(0)]

NoAnswer ==
  [called |-> FALSE, answer_yes |-> FALSE, keywords |-> <<>>, candidates |-> <<>>,
   ret |-> <<>>]

FrontInit ==
  /\ diag = NoDiag
  /\ nar = NoneNarrow
  /\ prop = NoProposal
  /\ ans = NoAnswer

\* A new RCAIndex, no files, no request being served
StoreInit ==
  /\ meta = <<>>
  /\ dim = NoneDim
  /\ faiss_index = NoIndex
  /\ meta_file = NoFile
  /\ faiss_file = NoIndex
  /\ last = [op |-> "init", err |-> "none"]
  /\ result = NoResult
  /\ ThreadsIdle

Init ==
  /\ StoreInit
  /\ EnvInit
  /\ FrontInit

\* index.build(embeddings, rows)
Build(embeddings, rows) ==
  /\ Lands("build", BuildCall(TheStore, TheDisk, embeddings, rows))
  /\ UNCHANGED <<envVars, frontVars, result, threadVars>>

\* index.add(embeddings, rows)
Add(embeddings, rows) ==
  /\ Lands("add", AddCall(TheStore, TheDisk, embeddings, rows))
  /\ UNCHANGED <<envVars, frontVars, result, threadVars>>

\* POST /ingest with an uploaded batch
Ingest(batch) ==
  /\ Lands("ingest", IngestCall(TheStore, TheDisk, batch))
  /\ UNCHANGED <<envVars, frontVars, result, threadVars>>

\* python -m app.ingest.build_index [--rebuild]: a process of its own, which
\* leaves its result on disk and exits; what stays in memory is a new
\* RCAIndex().
Main(rebuild, csv) ==
  /\ LET r == MainCall(TheDisk, rebuild, csv)
     IN  /\ Len(r.store.meta) <= MaxMeta
         /\ Lands("main", [store |-> NewStore, disk |-> r.disk, err |-> r.err])
  /\ UNCHANGED <<envVars, frontVars, result, threadVars>>

\* The backend process (re)starts.
Startup(csv) ==
  /\ Lands("startup", StartupCall(TheDisk, csv))
  /\ UNCHANGED <<envVars, frontVars, result, threadVars>>

Next ==
  \/ \E rows \in RowLists : \E e \in EmbeddingArgs(rows) : Build(e, rows)
  \/ \E rows \in RowLists : \E e \in EmbeddingArgs(rows) : Add(e, rows)
  \/ \E batch \in RowLists : Ingest(batch)
  \/ \E rebuild \in BOOLEAN, csv \in RowLists : Main(rebuild, csv)
  \/ \E csv \in RowLists : Startup(csv)

Spec == Init /\ [][Next]_vars

\* ---------------------------------------------- a store found on the disk
\* The metadata file was written by a completed save of a built store.  The
\* native artifact beside it is the one that save wrote, or is missing (the
\* store was saved where faiss was not installed), or cannot be read.
InitPersisted ==
  /\ meta = <<>>
  /\ dim = NoneDim
  /\ faiss_index = NoIndex
  /\ \E rows \in RowLists :
       LET e == EmbedTexts(rows) IN
       /\ meta_file = [exists |-> TRUE,
                       tokens |-> JsonDump(AppendRows(<<>>, NormaliseRows(e), rows))]
       /\ faiss_file \in { [IndexFlatIP(MatDim(e)) EXCEPT !.ntotal = Len(rows)],
                            NoIndex, UnreadableIndex }
  /\ last = [op |-> "init", err |-> "none"]
  /\ result = NoResult
  /\ ThreadsIdle
  /\ EnvInit
  /\ FrontInit

NextPersisted ==
  \/ \E csv \in RowLists : Startup(csv)
  \/ \E batch \in RowLists : Ingest(batch)
  \/ \E rebuild \in BOOLEAN, csv \in RowLists : Main(rebuild, csv)

SpecPersisted == InitPersisted /\ [][NextPersisted]_vars

\* =========================================================================
\* SpecThreads: the backend process serving requests in several threads, each
\* call advancing line by line, and the process dying and restarting.
\* =========================================================================
Goto(t, label) == pc' = [pc EXCEPT ![t] = label]

\* A request thread enters index.build(embeddings, rows).
CallBuild(t, embeddings, rows) ==
  /\ pc[t] = "idle"
  /\ call' = [call EXCEPT ![t] = [NoCall EXCEPT !.op = "build", !.rows = rows,
                                                !.embeddings = embeddings]]
  /\ Goto(t, "lock")
  /\ UNCHANGED <<storeVars, diskVars, envVars, frontVars, last, result, lock, buf>>

\* A request thread enters index.add(embeddings, rows).
CallAdd(t, embeddings, rows) ==
  /\ pc[t] = "idle"
  /\ call' = [call EXCEPT ![t] = [NoCall EXCEPT !.op = "add", !.rows = rows,
                                                !.embeddings = embeddings]]
  /\ Goto(t, "lock")
  /\ UNCHANGED <<storeVars, diskVars, envVars, frontVars, last, result, lock, buf>>

\* with self.lock: in build, if the with statement did not wait for the lock
BuildLock_NoWait(t) ==
  /\ pc[t] = "lock" /\ call[t].op = "build"
  /\ lock' = t
  /\ Goto(t, "head")
  /\ UNCHANGED <<storeVars, diskVars, envVars, frontVars, last, result, call, buf>>

\* with self.lock: in build
BuildLock(t) ==
  /\ pc[t] = "lock" /\ call[t].op = "build"
  /\ lock = Free
  /\ lock' = t
  /\ Goto(t, "head")
  /\ UNCHANGED <<storeVars, diskVars, envVars, frontVars, last, result, call, buf>>

\* with self.lock: in add
AddLock(t) ==
  /\ pc[t] = "lock" /\ call[t].op = "add"
  /\ lock = Free
  /\ Len(meta) + Len(call[t].rows) <= MaxMeta
  /\ lock' = t
  /\ Goto(t, "head")
  /\ UNCHANGED <<storeVars, diskVars, envVars, frontVars, last, result, call, buf>>

\* build, lines 55-61: the dimension, the native index, self.meta = []
BuildHead(t) ==
  /\ pc[t] = "head" /\ call[t].op = "build"
  /\ dim' = MatDim(call[t].embeddings)
  /\ faiss_index' = IF faiss
                      THEN [IndexFlatIP(MatDim(call[t].embeddings))
                              EXCEPT !.ntotal = Len(call[t].embeddings)]
                      ELSE faiss_index
  /\ meta' = <<>>
  /\ Goto(t, "append")
  /\ UNCHANGED <<diskVars, envVars, frontVars, last, result, lock, call, buf>>

\* An exception leaves the with block: the lock is released, the call is over.
Raises(t, err) ==
  /\ lock' = Free
  /\ last' = [op |-> call[t].op, err |-> err]
  /\ call' = [call EXCEPT ![t] = NoCall]
  /\ Goto(t, "idle")

\* add, lines 70-77: the dimension, the native index and its add
AddHead(t) ==
  /\ pc[t] = "head" /\ call[t].op = "add"
  /\ LET d1  == IF dim = NoneDim THEN MatDim(call[t].embeddings) ELSE dim
         fi1 == IF faiss /\ ~faiss_index.present THEN IndexFlatIP(d1) ELSE faiss_index
     IN  /\ dim' = d1
         /\ IF faiss /\ MatDim(call[t].embeddings) # fi1.d
              THEN /\ faiss_index' = fi1
                   /\ Raises(t, "AssertionError")
              ELSE /\ faiss_index' = IF faiss
                                       THEN [fi1 EXCEPT !.ntotal = @ + Len(call[t].embeddings)]
                                       ELSE fi1
                   /\ Goto(t, "append")
                   /\ UNCHANGED <<last, lock, call>>
  /\ UNCHANGED <<meta, diskVars, envVars, frontVars, result, buf>>

\* One turn of "for i, r in enumerate(rows)": append rows[i] with vecs[i].
AppendRow(t) ==
  /\ pc[t] = "append"
  /\ call[t].i < Len(call[t].rows)
  /\ IF call[t].i < Len(call[t].embeddings)
       THEN /\ meta' = Append(meta, Entry(call[t].rows[call[t].i + 1],
                                          Normalise(call[t].embeddings[call[t].i + 1])))
            /\ call' = [call EXCEPT ![t].i = @ + 1]
            /\ UNCHANGED <<pc, lock, last>>
       ELSE /\ Raises(t, "IndexError")
            /\ UNCHANGED meta
  /\ UNCHANGED <<dim, faiss_index, diskVars, envVars, frontVars, result, buf>>

\* The loop is over: the with block ends and the lock is released.
Unlock(t) ==
  /\ pc[t] = "append"
  /\ call[t].i = Len(call[t].rows)
  /\ lock' = Free
  /\ Goto(t, "open")
  /\ UNCHANGED <<storeVars, diskVars, envVars, frontVars, last, result, call, buf>>

\* save, line 33: open(META_PATH, "w") truncates the file.
SaveOpen(t) ==
  /\ pc[t] = "open"
  /\ meta_file' = [exists |-> TRUE, tokens |-> <<>>]
  /\ Goto(t, "dump")
  /\ UNCHANGED <<storeVars, faiss_file, envVars, frontVars, last, result, lock, call, buf>>

\* save, line 34: json.dump encodes self.meta, as it is now, into the file
\* object's buffer.
SaveDump(t) ==
  /\ pc[t] = "dump"
  /\ buf' = [buf EXCEPT ![t] = JsonDump(meta)]
  /\ Goto(t, "close")
  /\ UNCHANGED <<storeVars, diskVars, envVars, frontVars, last, result, lock, call>>

\* What a flush of tokens at offset 0 leaves of a file
Overwrite(tokens, file) == tokens \o SubSeq(file, Len(tokens) + 1, Len(file))

\* save, line 34: the with block closes the file, which flushes the buffer at
\* this file object's own offset, the start of the file.
SaveClose(t) ==
  /\ pc[t] = "close"
  /\ meta_file' = [exists |-> TRUE, tokens |-> Overwrite(buf[t], meta_file.tokens)]
  /\ buf' = [buf EXCEPT ![t] = <<>>]
  /\ Goto(t, "faiss")
  /\ UNCHANGED <<storeVars, faiss_file, envVars, frontVars, last, result, lock, call>>

\* save, lines 35-37: write the native index; the call returns.
SaveFaiss(t) ==
  /\ pc[t] = "faiss"
  /\ faiss_file' = IF faiss_index.present /\ faiss THEN faiss_index ELSE faiss_file
  /\ last' = [op |-> call[t].op, err |-> "none"]
  /\ call' = [call EXCEPT ![t] = NoCall]
  /\ Goto(t, "idle")
  /\ UNCHANGED <<storeVars, meta_file, envVars, frontVars, result, lock, buf>>

\* A request thread enters index.search(query_vec, top_k, component).
CallSearch(t, query_vec, top_k, component) ==
  /\ pc[t] = "idle"
  /\ call' = [call EXCEPT ![t] = [NoCall EXCEPT !.op = "search", !.query_vec = query_vec,
                                                !.top_k = top_k, !.component = component]]
  /\ Goto(t, "lock")
  /\ UNCHANGED <<storeVars, diskVars, envVars, frontVars, last, result, lock, buf>>

\* with self.lock: in search
SearchLock(t) ==
  /\ pc[t] = "lock" /\ call[t].op = "search"
  /\ lock = Free
  /\ lock' = t
  /\ Goto(t, "ids")
  /\ UNCHANGED <<storeVars, diskVars, envVars, frontVars, last, result, call, buf>>

\* search, lines 87-91: the ids of the entries to rank
SearchIds(t) ==
  /\ pc[t] = "ids"
  /\ call' = [call EXCEPT ![t].ids = MatchingIds(meta, call[t].component)]
  /\ Goto(t, "vecs")
  /\ UNCHANGED <<storeVars, diskVars, envVars, frontVars, last, result, lock, buf>>

\* search, lines 92-95: read the vectors of those ids, rank, return (which
\* releases the lock).
SearchRank(t) ==
  /\ pc[t] = "vecs"
  /\ \E ties \in TieOrders :
       last' = [op |-> "search",
                err |-> SearchVectors(ties, call[t].ids, meta, call[t].query_vec,
                                      call[t].top_k, call[t].component).err]
  /\ lock' = Free
  /\ call' = [call EXCEPT ![t] = NoCall]
  /\ Goto(t, "idle")
  /\ UNCHANGED <<storeVars, diskVars, envVars, frontVars, result, buf>>

\* A request thread runs engine.diagnose(query, top_k, component, model).
\* Line 12 of search.py passes model= to index.search, which has no such
\* parameter: the call raises TypeError before search is entered, so the
\* thread takes no lock and never comes to the lookups of lines 14-15.
CallDiagnose(t, query_vec, top_k, component, model) ==
  /\ pc[t] = "idle"
  /\ ~(DiagnoseKwargs \subseteq SearchParams)
  /\ result' = [op |-> "diagnose", query_vec |-> query_vec, top_k |-> top_k,
                component |-> component, model |-> model,
                err |-> "TypeError", hits |-> <<>>, out |-> <<>>]
  /\ UNCHANGED <<storeVars, diskVars, envVars, frontVars, last, threadVars>>

\* The process dies (a crash, a kill, a power cut) wherever its threads are,
\* losing what its file objects had buffered, and the backend starts again.
CrashRestart(csv) ==
  /\ \E t \in Threads : pc[t] # "idle"
  /\ LET r == StartupCall(TheDisk, csv)
     IN  /\ Len(r.store.meta) <= MaxMeta
         /\ meta' = r.store.meta
         /\ dim' = r.store.dim
         /\ faiss_index' = r.store.faiss_index
         /\ meta_file' = r.disk.meta_file
         /\ faiss_file' = r.disk.faiss_file
         /\ last' = [op |-> "startup", err |-> r.err]
  /\ lock' = Free
  /\ pc' = [t \in Threads |-> "idle"]
  /\ call' = [t \in Threads |-> NoCall]
  /\ buf' = [t \in Threads |-> <<>>]
  /\ UNCHANGED <<envVars, frontVars, result>>

\* The batch a thread's requests carry: one row of the pool (each thread has a
\* row of its own), embedded by a well-behaved provider.
ThreadRow(t) == IF t = "m1" THEN Row("pump", "", "loud vibration", "bearing wear")
                ELSE Row("motor", "", "burnt smell", "winding short")

ThreadRowLists(t) == { << ThreadRow(t) >> }

\* The seed CSV of the installation
SeedCsv == << Row("pump", "", "loud vibration", "bearing wear") >>

NextThreads ==
  \/ \E t \in Mutators : \E rows \in ThreadRowLists(t) : CallBuild(t, EmbedTexts(rows), rows)
  \/ \E t \in Mutators : \E rows \in ThreadRowLists(t) : CallAdd(t, EmbedTexts(rows), rows)
  \/ \E t \in Mutators : BuildLock(t)
  \/ \E t \in Mutators : AddLock(t)
  \/ \E t \in Mutators : BuildHead(t)
  \/ \E t \in Mutators : AddHead(t)
  \/ \E t \in Mutators : AppendRow(t)
  \/ \E t \in Mutators : Unlock(t)
  \/ \E t \in Mutators : SaveOpen(t)
  \/ \E t \in Mutators : SaveDump(t)
  \/ \E t \in Mutators : SaveClose(t)
  \/ \E t \in Mutators : SaveFaiss(t)
  \/ \E t \in Searchers, c \in { NoneStr, "pump" } : CallSearch(t, <<4, 3>>, MaxTopK, c)
  \/ \E t \in Searchers : SearchLock(t)
  \/ \E t \in Searchers : SearchIds(t)
  \/ \E t \in Searchers : SearchRank(t)
  \/ CrashRestart(SeedCsv)

\* The threads are followed in the deployment where "import faiss" failed
\* (index.py, lines 8-11): the store is then the meta list and its JSON file.
InitThreads == Init /\ ~faiss

SpecThreads == InitThreads /\ [][NextThreads]_vars

\* One thread serving build and add requests, line by line, and one request
\* thread calling engine.diagnose.
NextDiagnose ==
  \/ \E rows \in ThreadRowLists("m1") : CallBuild("m1", EmbedTexts(rows), rows)
  \/ \E rows \in ThreadRowLists("m2") : CallAdd("m1", EmbedTexts(rows), rows)
  \/ BuildLock("m1")
  \/ AddLock("m1")
  \/ BuildHead("m1")
  \/ AddHead("m1")
  \/ AppendRow("m1")
  \/ Unlock("m1")
  \/ SaveOpen("m1")
  \/ SaveDump("m1")
  \/ SaveClose("m1")
  \/ SaveFaiss("m1")
  \/ \E t \in Searchers, q \in QueryPool, c \in { NoneStr, "pump" }, mo \in ModelFilters :
       CallDiagnose(t, q, MaxTopK, c, mo)

SpecDiagnose == InitThreads /\ [][NextDiagnose]_vars

\* =========================================================================
\* SpecSearch: queries against a store that a build has filled.
\* =========================================================================
\* The stores searched: what index.build leaves of up to MaxMeta rows and a
\* matrix with one vector per row.  search reads self.meta only, never the
\* native index, so the stores are those of the deployment without faiss.
InitSearch ==
  /\ faiss = FALSE
  /\ \E rows \in SeqsUpTo(WideRowPool, MaxMeta) : \E e \in Matrices(MaxMeta) :
       /\ Len(e) = Len(rows)
       /\ LET r == BuildCall(NewStore, Disk(NoFile, NoIndex), e, rows)
          IN  /\ meta = r.store.meta
              /\ dim = r.store.dim
              /\ faiss_index = r.store.faiss_index
              /\ meta_file = r.disk.meta_file
              /\ faiss_file = r.disk.faiss_file
  /\ last = [op |-> "build", err |-> "none"]
  /\ result = NoResult
  /\ ThreadsIdle
  /\ FrontInit

\* index.search(query_vec, top_k, component)
Search(query_vec, top_k, component) ==
  /\ \E ties \in TieOrders :
       LET r == SearchCall(ties, meta, query_vec, top_k, component)
       IN  result' = [op |-> "search", query_vec |-> query_vec, top_k |-> top_k,
                      component |-> component, model |-> NoneStr,
                      err |-> r.err, hits |-> r.hits, out |-> <<>>]
  /\ UNCHANGED <<storeVars, diskVars, envVars, frontVars, last, threadVars>>

\* engine.diagnose(query, top_k, component, model); query_vec is the
\* embedding of the query text.
Diagnose(query_vec, top_k, component, model) ==
  /\ \E ties \in TieOrders :
       LET r == DiagnoseCall(ties, meta, query_vec, top_k, component, model)
       IN  result' = [op |-> "diagnose", query_vec |-> query_vec, top_k |-> top_k,
                      component |-> component, model |-> model,
                      err |-> r.err, hits |-> <<>>, out |-> r.out]
  /\ UNCHANGED <<storeVars, diskVars, envVars, frontVars, last, threadVars>>

NextSearch ==
  \/ \E q \in QueryPool, k \in 1..MaxTopK, c \in ComponentFilters : Search(q, k, c)
  \/ \E q \in QueryPool, c \in ComponentFilters, mo \in ModelFilters :
       Diagnose(q, MaxTopK, c, mo)

SpecSearch == InitSearch /\ [][NextSearch]_vars

\* =========================================================================
\* SpecPropose: propose_question on every ban set and every sequence of
\* provider responses.  SpecApply: apply_answer on every answer, keyword list
\* and candidate list.
\* =========================================================================
\* Question texts the provider proposes: "hot", " Hot", "ho", "oil", " "
ProposedQuestions ==
  { <<"h", "o", "t">>, <<" ", "H", "o", "t">>, <<"h", "o">>, <<"o", "i", "l">>, <<" ">> }

\* Keyword lists the provider proposes: ["HOT ", " "], ["oil"]
ProposedKeywords == { << <<"H", "O", "T", " ">>, <<" ">> >>, << <<"o", "i", "l">> >> }

ResponsePool ==
  { Garbage, NonObject }
    \cup { Object(q, kws) : q \in ProposedQuestions, kws \in ProposedKeywords }

\* Banned questions ("Hot", "ho") and banned keywords ("hot", "Oil") a caller
\* passes
BannedQuestionPool == { <<"H", "o", "t">>, <<"h", "o">> }
BannedKeywordPool == { <<"h", "o", "t">>, <<"O", "i", "l">> }

InitPropose ==
  /\ StoreInit
  /\ faiss = FALSE
  /\ diag = NoDiag
  /\ nar = NoneNarrow
  /\ ans = NoAnswer
  /\ \E bk \in SUBSET BannedKeywordPool, bq \in SUBSET BannedQuestionPool,
        rs \in [1..Attempts -> ResponsePool] :
       prop = [NoProposal EXCEPT !.banned_keywords = bk, !.banned_questions = bq,
                                 !.responses = rs]

\* propose_question(query, candidates, banned_keywords, banned_questions)
Propose ==
  /\ ~prop.called
  /\ prop' = [prop EXCEPT !.called = TRUE,
                          !.ret = ProposeQuestion(prop.banned_keywords,
                                                  prop.banned_questions, prop.responses)]
  /\ UNCHANGED <<storeVars, diskVars, envVars, last, result, threadVars, diag, nar, ans>>

NextPropose == Propose

SpecPropose == InitPropose /\ [][NextPropose]_vars

\* Candidates: "hot" at 0.60, "oil" at 0.60, "HOT" caused by "oil" at 0.76
CandPool ==
  { Candidate(<<"h", "o", "t">>, <<>>, <<>>, 60),
    Candidate(<<"o", "i", "l">>, <<>>, <<>>, 60),
    Candidate(<<"H", "O", "T">>, <<"o", "i", "l">>, <<>>, 76) }

\* Keywords of an answered question: "h", "O", ""
KeywordPool == { <<"h">>, <<"O">>, <<>> }

InitApply ==
  /\ StoreInit
  /\ faiss = FALSE
  /\ diag = NoDiag
  /\ nar = NoneNarrow
  /\ prop = NoProposal
  /\ \E yes \in BOOLEAN, kws \in SeqsUpTo(KeywordPool, MaxKeywords),
        cands \in SeqsUpTo(CandPool, MaxTopK) :
       ans = [NoAnswer EXCEPT !.answer_yes = yes, !.keywords = kws, !.candidates = cands]

\* apply_answer(answer_yes, keywords, candidates)
Apply ==
  /\ ~ans.called
  /\ ans' = [ans EXCEPT !.called = TRUE,
                        !.ret = ApplyAnswer(ans.answer_yes, ans.keywords, ans.candidates)]
  /\ UNCHANGED <<storeVars, diskVars, envVars, last, result, threadVars, diag, nar, prop>>

NextApply == Apply

SpecApply == InitApply /\ [][NextApply]_vars

\* =========================================================================
\* SpecNarrow: the narrowing dialogue of the frontend, one action per script
\* run that changes st.session_state.
\* =========================================================================
\* Program constants of the frontend, similarities in hundredths
MIN_SIMILARITY == 48
NARROW_MAX_STEPS == 6
GAP_GOOD == 15
SHORTLIST_COUNT == 1

\* What /diagnose returns: a list in descending similarity.  The lists are
\* prefixes (of 0, 1, 2, 4 and all entries) of one ranking of MaxCands
\* candidates above MIN_SIMILARITY ("hot" and "oil" faults in turn, the
\* second and third tied) followed by one below.
Ranking ==
  [i \in 1..(MaxCands + 1) |->
     Candidate(IF i % 2 = 1 THEN <<"h", "o", "t">> ELSE <<"o", "i", "l">>, <<>>, <<>>,
               IF i > MaxCands THEN 40
               ELSE IF i = 1 THEN 90
               ELSE IF i <= 3 THEN 84
               ELSE 84 - 6 * (i - 3))]

RawResults == { SubSeq(Ranking, 1, n) : n \in { 0, 1, 2, 4, MaxCands + 1 } }

Queries == { "", "noise", "smoke" }

\* Proposals of the question provider: "hot" with keywords "HOT " and " ",
\* "oil" with "oil", "fan" with "o" twice, " Hot" with "oil"
AskHot == Object(<<"h", "o", "t">>, << <<"H", "O", "T", " ">>, <<" ">> >>)
AskOil == Object(<<"o", "i", "l">>, << <<"o", "i", "l">> >>)
AskFan == Object(<<"f", "a", "n">>, << <<"o">>, <<"o">> >>)
AskHotAgain == Object(<<" ", "H", "o", "t">>, << <<"o", "i", "l">> >>)

\* What the question provider answers to the calls of one proposal request
\* during a dialogue: the three proposals starting from each of them,
\* unparseable text throughout, a non-object after unparseable text, a
\* repeated question first
DialogueResponses ==
  { <<AskHot, AskOil, AskFan>>, <<AskOil, AskFan, AskHot>>, <<AskFan, AskHot, AskOil>>,
    <<Garbage, Garbage, Garbage>>, <<Garbage, NonObject, AskHot>>,
    <<AskHotAgain, Garbage, AskHot>> }

\* How an HTTP round trip of the frontend ends: a 2xx response, another
\* status, or an exception of requests
Outcomes == { "ok", "error", "exception" }

\* [it for it in raw_results if float(it.get("similarity", 0.0)) >= MIN_SIMILARITY]
Filtered(raw_results) ==
  LET f[i \in 0..Len(raw_results)] ==
        IF i = 0 THEN <<>>
        ELSE IF raw_results[i].similarity >= MIN_SIMILARITY
               THEN Append(f[i - 1], raw_results[i])
               ELSE f[i - 1]
  IN  f[Len(raw_results)]

\* The session a diagnosis starts
NewNarrow(candidates, query) ==
  [candidates |-> candidates, step |-> 0, question |-> <<>>, keywords |-> <<>>,
   base_query |-> query, done |-> FALSE, asked |-> <<>>]

\* An entry of the asked log; answer is "yes", "no" or NoneStr
Asked(q, kws, answer) == [question |-> q, keywords |-> kws, answer |-> answer]

\* {kk for a in asked for kk in a["keywords"]}
AskedKeywords(asked) ==
  UNION { { asked[i].keywords[j] : j \in DOMAIN asked[i].keywords } : i \in DOMAIN asked }

AskedQuestions(asked) == { asked[i].question : i \in DOMAIN asked }

\* should_stop, if the similarity gap did not count
ShouldStop_NoGap(cands, step) ==
  \/ Len(cands) <= SHORTLIST_COUNT
  \/ step >= NARROW_MAX_STEPS

\* should_stop
ShouldStop(cands, step) ==
  \/ Len(cands) <= SHORTLIST_COUNT
  \/ step >= NARROW_MAX_STEPS
  \/ /\ Len(cands) >= 2
     /\ cands[1].similarity - cands[2].similarity >= GAP_GOOD
     /\ step >= 1

\* xs[:n]
Top(xs, n) == SubSeq(xs, 1, Min(n, Len(xs)))

\* Progressive pruning, if the cut to three candidates were left out
Prune_NoTopThree(cands, step) ==
  LET c5 == IF Len(cands) > 5 /\ step >= 1 THEN Top(cands, 5) ELSE cands
  IN  IF Len(c5) > 1 /\ (step >= 3 \/ ShouldStop(c5, step)) THEN Top(c5, 1) ELSE c5

\* Progressive pruning, if the third cut did not look at step
Prune_NoStepThree(cands, step) ==
  LET c5 == IF Len(cands) > 5 /\ step >= 1 THEN Top(cands, 5) ELSE cands
      c3 == IF Len(c5) > 3 /\ step >= 2 THEN Top(c5, 3) ELSE c5
  IN  IF Len(c3) > 1 /\ ShouldStop(c3, step) THEN Top(c3, 1) ELSE c3

\* Progressive pruning, lines 342-347
Prune(cands, step) ==
  LET c5 == IF Len(cands) > 5 /\ step >= 1 THEN Top(cands, 5) ELSE cands
      c3 == IF Len(c5) > 3 /\ step >= 2 THEN Top(c5, 3) ELSE c5
  IN  IF Len(c3) > 1 /\ (step >= 3 \/ ShouldStop(c3, step)) THEN Top(c3, 1) ELSE c3

\* The propose_question call of a proposal request of the dialogue; the
\* session holds its result until the question is answered or skipped
ProposalCall(banned_keywords, banned_questions, responses) ==
  [called |-> TRUE, banned_keywords |-> banned_keywords,
   banned_questions |-> banned_questions, responses |-> responses,
   ret |-> ProposeQuestion(banned_keywords, banned_questions, responses)]

\* The "propose next question" entry point of the backend, which the
\* frontend posts {query, candidates, asked} to: propose_question with the
\* ban sets accumulated from asked.  [ok, question, keywords]
NarrowNext(candidates, asked, responses) ==
  LET r == ProposeQuestion(AskedKeywords(asked), AskedQuestions(asked), responses)
  IN  [ok |-> r.err = "none", question |-> r.question, keywords |-> r.keywords]

\* The "apply answer" entry point of the backend: apply_answer
NarrowAnswer(answer_yes, keywords, candidates) ==
  ApplyAnswer(answer_yes, keywords, candidates)

\* The Diagnose button, if it started a session only where there is none
DiagnoseClick_KeepsSession(query, outcome, raw_results) ==
  /\ query # ""
  /\ outcome = "ok"
  /\ diag' = [has_results |-> TRUE, query |-> query, filtered |-> Filtered(raw_results)]
  /\ nar' = IF nar = NoneNarrow THEN NewNarrow(Filtered(raw_results), query) ELSE nar
  /\ prop' = IF nar = NoneNarrow THEN NoProposal ELSE prop
  /\ UNCHANGED <<storeVars, diskVars, envVars, last, result, threadVars, ans>>

\* The Diagnose button, lines 184-223
DiagnoseClick(query, outcome, raw_results) ==
  /\ query # ""
  /\ outcome = "ok"
  /\ diag' = [has_results |-> TRUE, query |-> query, filtered |-> Filtered(raw_results)]
  /\ nar' = NewNarrow(Filtered(raw_results), query)
  /\ prop' = NoProposal
  /\ UNCHANGED <<storeVars, diskVars, envVars, last, result, threadVars, ans>>

\* The condition of the auto-fetch, if it did not look at done
FetchGuard_IgnoresDone ==
  /\ diag.has_results
  /\ nar.question = <<>>
  /\ Len(nar.candidates) > SHORTLIST_COUNT
  /\ nar.step < NARROW_MAX_STEPS

\* The condition of the auto-fetch, line 260
FetchGuard ==
  /\ diag.has_results
  /\ ~nar.done
  /\ nar.question = <<>>
  /\ Len(nar.candidates) > SHORTLIST_COUNT
  /\ nar.step < NARROW_MAX_STEPS

\* A script run that fetches a narrowing question, lines 260-279
AutoFetch(outcome, responses) ==
  /\ FetchGuard
  /\ IF outcome = "ok"
       THEN \E data \in { NarrowNext(Top(nar.candidates, 5), nar.asked, responses) },
               already \in { AskedKeywords(nar.asked) } :
              IF data.ok
                THEN IF /\ data.keywords # <<>>
                        /\ \A i \in DOMAIN data.keywords : data.keywords[i] \in already
                       THEN nar' = [nar EXCEPT !.question = <<>>, !.keywords = <<>>]
                       ELSE nar' = [nar EXCEPT !.question = data.question,
                                               !.keywords = data.keywords]
                ELSE nar' = [nar EXCEPT !.done = TRUE]
       ELSE nar' = [nar EXCEPT !.done = TRUE]
  /\ prop' = IF outcome = "ok"
               THEN ProposalCall(AskedKeywords(nar.asked), AskedQuestions(nar.asked),
                                 responses)
               ELSE prop
  /\ UNCHANGED <<storeVars, diskVars, envVars, last, result, threadVars, diag, ans>>

\* The form is shown, line 311
FormShown == diag.has_results /\ nar.question # <<>> /\ ~nar.done

\* Apply with Skip chosen, if the record kept no keywords
Skip_DropsKeywords ==
  /\ FormShown
  /\ nar' = [nar EXCEPT !.asked = Append(@, Asked(nar.question, <<>>, NoneStr)),
                        !.question = <<>>, !.keywords = <<>>]
  /\ prop' = NoProposal
  /\ UNCHANGED <<storeVars, diskVars, envVars, last, result, threadVars, diag, ans>>

\* Apply with Skip chosen, if it counted as a step
Skip_AdvancesStep ==
  /\ FormShown
  /\ nar' = [nar EXCEPT !.asked = Append(@, Asked(nar.question, nar.keywords, NoneStr)),
                        !.question = <<>>, !.keywords = <<>>,
                        !.step = @ + 1]
  /\ prop' = NoProposal
  /\ UNCHANGED <<storeVars, diskVars, envVars, last, result, threadVars, diag, ans>>

\* Apply with Skip chosen, lines 320-325
Skip ==
  /\ FormShown
  /\ nar' = [nar EXCEPT !.asked = Append(@, Asked(nar.question, nar.keywords, NoneStr)),
                        !.question = <<>>, !.keywords = <<>>]
  /\ prop' = NoProposal
  /\ UNCHANGED <<storeVars, diskVars, envVars, last, result, threadVars, diag, ans>>

\* Apply with Yes or No chosen, if a raising request had already been logged
Answer_LogsBeforeRequest(answer_yes, outcome) ==
  /\ FormShown
  /\ CASE outcome = "ok" ->
            LET step == nar.step + 1
                cands == Prune(NarrowAnswer(answer_yes, nar.keywords, nar.candidates), step)
            IN  nar' = [nar EXCEPT
                          !.candidates = cands,
                          !.asked = Append(@, Asked(nar.question, nar.keywords,
                                                    IF answer_yes THEN "yes" ELSE "no")),
                          !.question = <<>>, !.keywords = <<>>,
                          !.step = step,
                          !.done = Len(cands) <= 1 \/ ShouldStop(cands, step)]
       [] outcome = "error" -> nar' = nar
       [] OTHER -> nar' = [nar EXCEPT
                             !.asked = Append(@, Asked(nar.question, nar.keywords,
                                                       IF answer_yes THEN "yes" ELSE "no")),
                             !.done = TRUE]
  /\ prop' = IF outcome = "ok" THEN NoProposal ELSE prop
  /\ UNCHANGED <<storeVars, diskVars, envVars, last, result, threadVars, diag, ans>>

\* Apply with Yes or No chosen, lines 326-356
Answer(answer_yes, outcome) ==
  /\ FormShown
  /\ CASE outcome = "ok" ->
            LET step == nar.step + 1
                cands == Prune(NarrowAnswer(answer_yes, nar.keywords, nar.candidates), step)
            IN  nar' = [nar EXCEPT
                          !.candidates = cands,
                          !.asked = Append(@, Asked(nar.question, nar.keywords,
                                                    IF answer_yes THEN "yes" ELSE "no")),
                          !.question = <<>>, !.keywords = <<>>,
                          !.step = step,
                          !.done = Len(cands) <= 1 \/ ShouldStop(cands, step)]
       [] outcome = "error" -> nar' = nar
       [] OTHER -> nar' = [nar EXCEPT !.done = TRUE]
  /\ prop' = IF outcome = "ok" THEN NoProposal ELSE prop
  /\ UNCHANGED <<storeVars, diskVars, envVars, last, result, threadVars, diag, ans>>

NextNarrow ==
  \/ \E query \in Queries, outcome \in Outcomes, raw_results \in RawResults :
       DiagnoseClick(query, outcome, raw_results)
  \/ \E outcome \in Outcomes, responses \in DialogueResponses :
       AutoFetch(outcome, responses)
  \/ Skip
  \/ \E answer_yes \in BOOLEAN, outcome \in Outcomes : Answer(answer_yes, outcome)

InitNarrow == Init /\ faiss = FALSE

SpecNarrow == InitNarrow /\ [][NextNarrow]_vars

\* =========================================================================
\* SpecSkip: a dialogue in which every request succeeds and the user skips
\* every question.  The script runs again after each submitted form and the
\* auto-fetch is part of every run, hence the weak fairness.
\* =========================================================================
\* Provider responses that do not make the proposal request fail
AnsweredResponses ==
  { rs \in DialogueResponses : \A i \in DOMAIN rs : rs[i] # NonObject }

\* A diagnosis has just started a session with candidates to narrow
InitSkip ==
  /\ StoreInit
  /\ faiss = FALSE
  /\ prop = NoProposal
  /\ ans = NoAnswer
  /\ \E query \in Queries \ { "" }, raw_results \in RawResults :
       /\ Len(Filtered(raw_results)) > SHORTLIST_COUNT
       /\ diag = [has_results |-> TRUE, query |-> query,
                  filtered |-> Filtered(raw_results)]
       /\ nar = NewNarrow(Filtered(raw_results), query)

NextSkip ==
  \/ \E responses \in AnsweredResponses : AutoFetch("ok", responses)
  \/ Skip

SpecSkip == InitSkip /\ [][NextSkip]_vars /\ WF_vars(NextSkip)

\* =========================================================================
\* Properties
\* =========================================================================
\* The list the metadata file holds, as json.loads reads it
PersistedMeta == JsonLoads(meta_file.tokens).meta

\* No two entries of m have the same fault_description.
UniqueDescriptions(m) ==
  \A i, j \in DOMAIN m : i # j => m[i].fault_description # m[j].fault_description

\* C1: while a search is between taking the lock and returning, no build or
\* add is inside its locked section (so the list is neither cleared-and-not-
\* refilled nor partly appended), the ids the search computed are those of
\* the list as it is now, and what the search is about to return is the
\* search over that whole list.
C1_SearchSeesWholeStore ==
  \A s \in Searchers :
    pc[s] \in { "ids", "vecs" } =>
      /\ lock = s
      /\ \A t \in Mutators : pc[t] \notin { "head", "append" }
      /\ pc[s] = "vecs" =>
           /\ call[s].ids = MatchingIds(meta, call[s].component)
           /\ \A ties \in TieOrders :
                SearchVectors(ties, call[s].ids, meta, call[s].query_vec,
                              call[s].top_k, call[s].component)
                  = SearchCall(ties, meta, call[s].query_vec, call[s].top_k,
                               call[s].component)

\* A search has computed its ids over a non-empty list and is about to rank
\* them while a build and an add wait for the lock.
C1_Witness ==
  \E s \in Searchers : \E t, u \in Mutators :
    /\ pc[s] = "vecs" /\ call[s].ids # <<>>
    /\ pc[t] = "lock" /\ call[t].op = "build"
    /\ pc[u] = "lock" /\ call[u].op = "add"

\* C2: an ingestion (POST /ingest or build_index.main) that starts from a
\* store and a file without duplicate fault_descriptions leaves no duplicate
\* fault_description in the store or in the file.
C2_IngestKeepsDescriptionsUnique ==
  [][ ( /\ \/ \E batch \in RowLists : Ingest(batch)
           \/ \E rebuild \in BOOLEAN, csv \in RowLists : Main(rebuild, csv)
        /\ UniqueDescriptions(meta)
        /\ UniqueDescriptions(PersistedMeta) )
      => ( UniqueDescriptions(meta') /\ UniqueDescriptions(PersistedMeta') ) ]_vars

\* C3: when the process died during a save and started again, the load at
\* startup read a complete metadata file (it did not fail on a truncated,
\* empty or partly written one).
C3_LoadAfterCrashReadsCompleteFile ==
  last.op = "startup" => last.err = "none"

\* C4: when no build/add call is in progress and the last call to return was
\* a build or an add, the metadata file holds exactly the in-memory list.
C4_PersistedEqualsMemoryAtRest ==
  ( /\ \A t \in Mutators : pc[t] = "idle"
    /\ last.op \in { "build", "add" } )
  => ( /\ JsonLoads(meta_file.tokens).ok
       /\ PersistedMeta = meta )

\* C5: after a build or an add that returned, a new store that has only
\* called load answers every search (query, top_k, component filter, under
\* either tie order) with the same (position, similarity) sequence as the
\* store that performed the call.
C5_LoadRoundTrip ==
  ( last.op \in { "build", "add" } /\ last.err = "none" ) =>
    LET ld == Load(NewStore, TheDisk) IN
      /\ ld.ret
      /\ ld.err = "none"
      /\ \A ties \in TieOrders, q \in QueryPool, k \in 1..MaxTopK, c \in ComponentFilters :
           SearchCall(ties, ld.store.meta, q, k, c) = SearchCall(ties, meta, q, k, c)

\* An add has returned on a store of two entries, and a search on the
\* reloaded store returns two hits.
C5_Witness ==
  /\ last = [op |-> "add", err |-> "none"]
  /\ Len(meta) = 2
  /\ \E ties \in TieOrders, q \in QueryPool :
       LET r == SearchCall(ties, Load(NewStore, TheDisk).store.meta, q, MaxTopK, NoneStr)
       IN  r.err = "none" /\ Len(r.hits) = 2

\* C6: a search that returned gives at most top_k hits, no entry of the
\* filtered subset left out has a higher similarity than a returned one, the
\* hits are in descending similarity, and hits of equal similarity are in
\* ascending position (an equal entry left out has a later position).
C6_TopKOrderedTiesAscending ==
  ( result.op = "search" /\ result.err = "none" ) =>
    LET hits == result.hits
        ids  == MatchingIds(meta, result.component)
        q    == Normalise(result.query_vec)
        sim(p) == Dot(meta[p + 1].embedding, q)
        got  == { hits[i].pos : i \in DOMAIN hits }
    IN  /\ Len(hits) = Min(result.top_k, Len(ids))
        /\ \A i \in DOMAIN hits : hits[i].similarity = sim(hits[i].pos)
        /\ \A i, j \in DOMAIN hits :
             i < j => \/ hits[i].similarity > hits[j].similarity
                      \/ /\ hits[i].similarity = hits[j].similarity
                         /\ hits[i].pos < hits[j].pos
        /\ \A i \in DOMAIN hits : \A n \in DOMAIN ids :
             ids[n] \notin got =>
               \/ sim(ids[n]) < hits[i].similarity
               \/ sim(ids[n]) = hits[i].similarity /\ ids[n] > hits[i].pos

\* C7: a search or diagnose on a store without entries, or with a component
\* filter that matches no entry, raises nothing and returns the empty
\* sequence.
C7_EmptyResultNotError ==
  ( /\ result.op \in { "search", "diagnose" }
    /\ MatchingIds(meta, result.component) = <<>> )
  => ( result.err = "none" /\ result.hits = <<>> /\ result.out = <<>> )

\* C8: a diagnose call with a component and/or model filter is answered (the
\* call returns), and every entry it returns has the filter's component,
\* compared case-insensitively, and the filter's model.
C8_FiltersRestrictEntries ==
  ( result.op = "diagnose" /\ (Truthy(result.component) \/ Truthy(result.model)) ) =>
    /\ result.err = "none"
    /\ \A i \in DOMAIN result.out :
         /\ Truthy(result.component)
              => Lower(result.out[i].component) = Lower(result.component)
         /\ Truthy(result.model) => result.out[i].model = result.model

\* C9: a build or add call whose embeddings and rows differ in number ends
\* with ShapeMismatch and leaves the store and the files as they were.
C9_CountMismatchRejected ==
  [][ \A rows \in RowLists : \A e \in EmbeddingArgs(rows) :
        ( Len(e) # Len(rows) /\ (Build(e, rows) \/ Add(e, rows)) )
        => ( /\ last'.err = "ShapeMismatch"
             /\ <<meta, dim, faiss_index>>' = <<meta, dim, faiss_index>>
             /\ <<meta_file, faiss_file>>' = <<meta_file, faiss_file>> ) ]_vars

\* C10: every stored embedding has the store's dimension.
C10_UniformDimension ==
  \A i \in DOMAIN meta : Len(meta[i].embedding) = dim

\* The ways to match the positions of a list of n elements with those of
\* another
Bijections(n) == { f \in [1..n -> 1..n] : \A i, j \in 1..n : i # j => f[i] # f[j] }

\* C11: a proposal that propose_question returns has a non-empty question
\* whose trimmed, case-folded text neither equals, contains nor is contained
\* in any banned question, and no keyword of it equals a banned keyword
\* (case-folded), whatever the ban sets and the provider's responses.
C11_ProposalAvoidsBans ==
  ( prop.called /\ prop.ret.err = "none" /\ ~prop.ret.none ) =>
    LET q == Fold(prop.ret.question) IN
      /\ q # <<>>
      /\ \A b \in prop.banned_questions :
           Strip(b) # <<>> =>
             /\ q # Fold(b)
             /\ ~Contains(q, Fold(b))
             /\ ~Contains(Fold(b), q)
      /\ \A i \in DOMAIN prop.ret.keywords : \A b \in prop.banned_keywords :
           Fold(prop.ret.keywords[i]) # Fold(b)

\* Two responses were turned down and the third accepted, with a banned
\* question and a banned keyword in force.
C11_Witness ==
  /\ prop.called /\ prop.ret.err = "none" /\ ~prop.ret.none
  /\ prop.ret.calls = Attempts
  /\ prop.banned_questions # {} /\ prop.banned_keywords # {}
  /\ prop.ret.keywords # <<>>

\* C12: propose_question makes at most 3 provider calls and returns either
\* an accepted proposal or "none", never an error, whatever the provider
\* answers (a malformed answer uses up one attempt).
C12_AtMostThreeCallsNoError ==
  prop.called =>
    /\ prop.ret.calls <= 3
    /\ prop.ret.err = "none"
    /\ prop.ret.none \/ prop.ret.question # <<>>
    /\ prop.ret.none => prop.ret.calls = 3

\* C13: apply_answer changes each candidate's similarity by
\* min(0.15, 0.07 x hits): upwards on Yes, downwards on No, never by more
\* than 0.15.
C13_DeltaBounded ==
  ans.called =>
    \E perm \in Bijections(Len(ans.candidates)) :
      \A p \in DOMAIN ans.ret :
        LET before == ans.candidates[perm[p]]
            change == ans.ret[p].similarity - before.similarity
            size   == IF 7 * Hits(ans.keywords, before) < 15
                        THEN 7 * Hits(ans.keywords, before) ELSE 15
        IN  /\ ans.ret[p] = [before EXCEPT !.similarity = ans.ret[p].similarity]
            /\ change <= 15 /\ change >= -15
            /\ ans.answer_yes => change = size
            /\ ~ans.answer_yes => change = -size

\* A No answer with three keyword hits on a candidate: 0.21 capped to 0.15.
C13_Witness ==
  /\ ans.called /\ ~ans.answer_yes
  /\ \E p \in DOMAIN ans.ret : \E i \in DOMAIN ans.candidates :
       /\ Hits(ans.keywords, ans.candidates[i]) = 3
       /\ ans.ret[p] = [ans.candidates[i] EXCEPT !.similarity = @ - 15]

\* C14: apply_answer returns the input candidates, each once, in descending
\* order of updated similarity, candidates of equal updated similarity in
\* the order they had in the input.
C14_StablePermutation ==
  ans.called =>
    /\ Len(ans.ret) = Len(ans.candidates)
    /\ \E perm \in Bijections(Len(ans.candidates)) :
         /\ \A p \in DOMAIN ans.ret :
              ans.ret[p] = [ans.candidates[perm[p]] EXCEPT
                              !.similarity = @ + Delta(ans.answer_yes, ans.keywords,
                                                       ans.candidates[perm[p]])]
         /\ \A p, r \in DOMAIN ans.ret :
              p < r => \/ ans.ret[p].similarity > ans.ret[r].similarity
                       \/ /\ ans.ret[p].similarity = ans.ret[r].similarity
                          /\ perm[p] < perm[r]

\* The answer moved the last candidate to the front, and two different
\* candidates ended with equal similarity.
C14_Witness ==
  /\ ans.called
  /\ Len(ans.ret) = 3
  /\ ans.ret[1].matched_fault_description = ans.candidates[3].matched_fault_description
  /\ ans.ret[1].matched_fault_description # ans.candidates[1].matched_fault_description
  /\ ans.ret[2].similarity = ans.ret[3].similarity
  /\ ans.ret[2] # ans.ret[3]

\* shouldStop and the step limits of the pruning policy, as the dialogue's
\* contract states them
StopRule(cands, step) ==
  \/ Len(cands) <= 1
  \/ step >= 6
  \/ Len(cands) >= 2 /\ cands[1].similarity - cands[2].similarity >= 15 /\ step >= 1

StepLimit(step) == IF step = 1 THEN 5 ELSE IF step = 2 THEN 3 ELSE 1

FirstOf(xs, n) == [i \in 1..(IF n < Len(xs) THEN n ELSE Len(xs)) |-> xs[i]]

\* The answer the last entry of the asked log records
LastAnswer(asked) == asked[Len(asked)].answer

\* C15: in a dialogue whose user skips every question, done eventually
\* becomes true.
C15_SkipDialogueEnds == <>(nar.done)

\* C16: when the proposal request at hand yielded no question, the session
\* is done.
C16_NoProposalEndsDialogue ==
  ( prop.called /\ prop.ret.err = "none" /\ prop.ret.none ) => nar.done

\* C17: a proposal is requested, and a question becomes pending, only from
\* a state with done false, step < 6 and more than one candidate; from a
\* state with done true, any step other than a new diagnosis leaves the
\* session and the proposal at hand as they are.
C17_DoneTerminalGuarded ==
  [][ /\ ( \/ prop'.called /\ prop' # prop
           \/ nar'.question # <<>> /\ nar'.question # nar.question )
         => ( ~nar.done /\ nar.step < 6 /\ Len(nar.candidates) > 1 )
      /\ nar.done
         => \/ \E query \in Queries, outcome \in Outcomes, raw_results \in RawResults :
                 DiagnoseClick(query, outcome, raw_results)
            \/ nar' = nar /\ prop' = prop ]_vars

\* The third Yes/No answer ended a dialogue that had skipped a question
\* too; only a new diagnosis can follow.
C17_Witness ==
  /\ nar.done /\ nar.step = 3
  /\ Len(nar.asked) = 3
  /\ Len(diag.filtered) > 1

\* C18: after a Yes/No answer, done is true exactly when shouldStop holds of
\* the list pruned to the limit of the incremented step and that step.
C18_DoneIffShouldStop ==
  [][ nar'.step = nar.step + 1 =>
        \E answer_yes \in BOOLEAN :
          /\ LastAnswer(nar'.asked) = (IF answer_yes THEN "yes" ELSE "no")
          /\ LET resorted == ApplyAnswer(answer_yes, nar.keywords, nar.candidates)
                 pruned == FirstOf(resorted, StepLimit(nar'.step))
             IN  nar'.done = StopRule(pruned, nar'.step) ]_vars

\* The second Yes/No answer opened a gap of 0.15 between the first two of
\* several candidates, which ended the dialogue.
C18_Witness ==
  /\ nar.done /\ nar.step = 2 /\ Len(nar.candidates) = 1
  /\ LastAnswer(nar.asked) # NoneStr
  /\ prop = NoProposal

C20_InitialSession ==
  [][ ( \E query \in Queries, outcome \in Outcomes, raw_results \in RawResults :
          DiagnoseClick(query, outcome, raw_results) )
      => /\ nar'.asked = <<>>
         /\ nar'.step = 0
         /\ nar'.question = <<>>
         /\ nar'.done = (Len(nar'.candidates) <= 1) ]_vars

\* The entries of an asked log whose answer is Yes or No
Answered(asked) == { i \in DOMAIN asked : asked[i].answer # NoneStr }

\* The proposal at hand was requested with the questions and keywords of
\* every entry of the asked log in its ban sets
BansCover(p, asked) ==
  p.called =>
    \A i \in DOMAIN asked :
      /\ asked[i].question \in p.banned_questions
      /\ \A j \in DOMAIN asked[i].keywords : asked[i].keywords[j] \in p.banned_keywords

\* C21: a Skip appends one record {question, keywords, answer: null} of the
\* pending question to asked, clears the pending question and leaves step,
\* done and the candidate list as they are; every later proposal request
\* has the text and the keywords of the skipped questions in its ban sets.
C21_SkipFrame ==
  [][ /\ ( /\ FormShown
           /\ Len(nar'.asked) > Len(nar.asked)
           /\ LastAnswer(nar'.asked) = NoneStr )
         => /\ nar'.asked = Append(nar.asked, [question |-> nar.question,
                                               keywords |-> nar.keywords,
                                               answer |-> NoneStr])
            /\ nar'.question = <<>>
            /\ nar'.step = nar.step
            /\ nar'.done = nar.done
            /\ nar'.candidates = nar.candidates
      /\ BansCover(prop', nar'.asked) ]_vars

\* A question with keywords was skipped and another one has been proposed
\* since.
C21_Witness ==
  /\ Len(nar.asked) = 1
  /\ nar.asked[1].answer = NoneStr
  /\ nar.asked[1].keywords # <<>>
  /\ prop.called /\ nar.question # <<>>
  /\ nar.step = 0 /\ ~nar.done

\* C22: a proposal request or an answer request that fails, by an error
\* response or by an exception, leaves asked, candidates and step as they
\* were.
C22_FailureLeavesSession ==
  [][ \/ /\ nar'.asked = nar.asked
         /\ nar'.candidates = nar.candidates
         /\ nar'.step = nar.step
      \/ ~ ( \/ \E outcome \in Outcomes \ { "ok" }, responses \in DialogueResponses :
                  AutoFetch(outcome, responses)
             \/ \E responses \in DialogueResponses :
                  /\ prop'.ret.err # "none"
                  /\ AutoFetch("ok", responses)
             \/ \E answer_yes \in BOOLEAN, outcome \in Outcomes \ { "ok" } :
                  Answer(answer_yes, outcome) ) ]_vars

\* An answer request raised after an earlier answer had been applied: the
\* dialogue is over with the question still in the session.
C22_Witness ==
  /\ nar.done /\ nar.question # <<>>
  /\ nar.step = 1 /\ Len(nar.asked) = 1
  /\ Len(nar.candidates) > 1

NewDiagnosis ==
  \E query \in Queries, raw_results \in RawResults : DiagnoseClick(query, "ok", raw_results)

\* C27: step is the number of asked entries answered Yes or No, and within
\* a dialogue asked stays or grows by one entry at its end.
C27_StepCountsAnswers ==
  [][ /\ nar'.step = Cardinality(Answered(nar'.asked))
      /\ ( nar'.asked # nar.asked /\ ~NewDiagnosis )
         => /\ Len(nar'.asked) = Len(nar.asked) + 1
            /\ SubSeq(nar'.asked, 1, Len(nar.asked)) = nar.asked
            /\ FormShown ]_vars

\* A dialogue with a skipped question between two answered ones.
C27_Witness ==
  /\ Len(nar.asked) = 3 /\ nar.step = 2
  /\ nar.asked[1].answer # NoneStr
  /\ nar.asked[2].answer = NoneStr
  /\ nar.asked[3].answer # NoneStr

\* C28: step >= 1 implies at most 5 candidates, step >= 2 at most 3,
\* step >= 3 at most 1 and done; step is never above 3.
C28_PruningInvariant ==
  /\ nar.step >= 1 => Len(nar.candidates) <= 5
  /\ nar.step >= 2 => Len(nar.candidates) <= 3
  /\ nar.step >= 3 => Len(nar.candidates) <= 1 /\ nar.done
  /\ nar.step <= 3

\* The third answer of a dialogue that started with more than five
\* candidates.
C28_Witness ==
  /\ nar.step = 3 /\ nar.done
  /\ Len(nar.candidates) = 1
  /\ Len(diag.filtered) > 5

\* The similarity a returned candidate had before the answer
Before_(c) == c.similarity - Delta(ans.answer_yes, ans.keywords, c)

\* C26: apply_answer never puts a candidate behind another one that it was
\* ahead of by more than 0.15 before the answer.
C26_RankStableUnderCap ==
  ans.called =>
    \A p, r \in DOMAIN ans.ret :
      p < r => Before_(ans.ret[r]) - Before_(ans.ret[p]) <= 15

\* Two candidates 0.16 apart before the answer are 0.01 apart after it, in
\* the same order: the full cap went to one of them only.
C26_Witness ==
  /\ ans.called
  /\ \E p, r \in DOMAIN ans.ret :
       /\ p < r
       /\ Before_(ans.ret[p]) - Before_(ans.ret[r]) = 16
       /\ ans.ret[p].similarity - ans.ret[r].similarity = 1

\* C24: loading a persisted store succeeds whatever the state of the native
\* artifact, and every search then answers as a search over the persisted
\* metadata does.
C24_MetadataAloneDecides ==
  last.op = "startup" =>
    /\ last.err = "none"
    /\ \A ties \in TieOrders, q \in QueryPool, component \in ComponentFilters :
         SearchCall(ties, meta, q, MaxTopK, component)
           = SearchCall(ties, PersistedMeta, q, MaxTopK, component)

\* C29: where faiss is installed, a native index in the store has one
\* vector per metadata entry.
C29_IndexMirrorsMeta ==
  (faiss /\ faiss_index.present) => faiss_index.ntotal = Len(meta)

\* Some build or add call is under way.
MutatorBusy == \E t \in Mutators : pc[t] # "idle"

====
